---------------------------- MODULE Spec2Model ----------------------------
(***************************************************************************)
(* Model of openalea.cellcomplex.property_topomesh.utils.array_tools:      *)
(* array_unique, where_list, array_difference and weighted_percentile.     *)
(*                                                                         *)
(* Every function is a pure transformation; one call is modelled as a      *)
(* small state machine: Init draws the arguments of the call, the actions  *)
(* are the statements of the function body, pc is the position in it.      *)
(* Positions and indices are the 0-based ones of Python; TLA+ sequences    *)
(* are 1-based, so position k of an array  a  is  a[k + 1].                *)
(* Arithmetic on percentile ranks is exact rational arithmetic, a rational *)
(* being a record [n, d] with d >= 0; d = 0 encodes the IEEE values        *)
(* +inf (n > 0), -inf (n < 0) and NaN (n = 0) that a zero total weight     *)
(* produces.                                                               *)
(***************************************************************************)
EXTENDS Integers, Sequences, FiniteSets

VARIABLES
    pc,                    \* position in the body of the called function
    args,                  \* the arguments of the call, as passed
    unique_rows,           \* array_unique: indices returned by np.unique
    mask,                  \* where_list: the per-position label sums
    values,                \* weighted_percentile: local `values`
    sample_weight,         \* weighted_percentile: local `sample_weight`
    weighted_percentiles,  \* weighted_percentile: the weighted ranks
    ret                    \* what the call returned or raised

vars == <<pc, args, unique_rows, mask, values, sample_weight,
          weighted_percentiles, ret>>

---------------------------------------------------------------------------
(* Bounds of the model                                                     *)

MaxRows == 3
MaxSize == 4
MaxQuery == 2
MaxLen == 3
MaxUniformLen == 5
MaxItems == 3

---------------------------------------------------------------------------
(* Generic helpers                                                         *)

SeqsUpTo(S, lo, hi) == UNION {[1..n -> S] : n \in lo..hi}

Range(s) == {s[i] : i \in DOMAIN s}

NoResult == [status |-> "none", value |-> <<>>]

Returned(v) == [status |-> "ok", value |-> v]

Raised(e) == [status |-> e, value |-> <<>>]

---------------------------------------------------------------------------
(* array_unique                                                            *)

\* array.dtype.itemsize of the modelled dtype, a little-endian int16
ItemSize == 2

\* faulty variant of ElemBytes: the element is taken to be one byte wide, so the
\* high byte never reaches the key
ElemBytesLowByteOnly(v) ==
    LET u == v % 65536
    IN  [b \in 1..ItemSize |-> u % 256]

\* the raw bytes of one int16 element, least significant byte first
ElemBytes(v) ==
    LET u == v % 65536
    IN  [b \in 1..ItemSize |-> IF b = 1 THEN u % 256 ELSE u \div 256]

RECURSIVE Flatten(_)
Flatten(ss) == IF ss = <<>> THEN <<>> ELSE Head(ss) \o Flatten(Tail(ss))

\* np.ascontiguousarray(array).view(np.void of itemsize * shape[1] bytes):
\* one opaque key per row, the row's bytes in memory order
VoidView(array) ==
    [r \in DOMAIN array |->
        Flatten([c \in DOMAIN array[r] |-> ElemBytes(array[r][c])])]

\* numpy orders np.void items bytewise (memcmp)
RECURSIVE VoidLess(_, _)
VoidLess(a, b) ==
    IF a = <<>> \/ b = <<>> THEN FALSE
    ELSE IF Head(a) # Head(b) THEN Head(a) < Head(b)
    ELSE VoidLess(Tail(a), Tail(b))

\* faulty variant of StableInsert: an unstable sort, position k goes before the
\* positions that hold an equal key
RECURSIVE UnstableInsert(_, _, _)
UnstableInsert(ar, perm, k) ==
    IF perm = <<>> THEN <<k>>
    ELSE IF ~VoidLess(ar[perm[Len(perm)]], ar[k])
         THEN Append(UnstableInsert(ar, SubSeq(perm, 1, Len(perm) - 1), k),
                     perm[Len(perm)])
         ELSE Append(perm, k)

\* insert position k into the sorted index sequence perm, after every
\* position whose key is not greater (what keeps the merge sort stable)
RECURSIVE StableInsert(_, _, _)
StableInsert(ar, perm, k) ==
    IF perm = <<>> THEN <<k>>
    ELSE IF VoidLess(ar[k], ar[perm[Len(perm)]])
         THEN Append(StableInsert(ar, SubSeq(perm, 1, Len(perm) - 1), k),
                     perm[Len(perm)])
         ELSE Append(perm, k)

\* ar.argsort(kind='mergesort') of np.unique(..., return_index=True)
RECURSIVE MergeArgsortUpTo(_, _)
MergeArgsortUpTo(ar, n) ==
    IF n = 0 THEN <<>>
    ELSE StableInsert(ar, MergeArgsortUpTo(ar, n - 1), n)

MergeArgsort(ar) == MergeArgsortUpTo(ar, Len(ar))

\* keep the entries of s whose flag is set
RECURSIVE Compress(_, _)
Compress(s, flag) ==
    IF s = <<>> THEN <<>>
    ELSE (IF Head(flag) THEN <<Head(s)>> ELSE <<>>)
         \o Compress(Tail(s), Tail(flag))

\* the index result of np.unique(ar, return_index=True): sort, flag the
\* first item of every run of equal keys, return its (0-based) position
NpUniqueIndex(ar) ==
    LET perm == MergeArgsort(ar)
        aux  == [i \in DOMAIN perm |-> ar[perm[i]]]
        flag == [i \in DOMAIN perm |-> i = 1 \/ aux[i] # aux[i - 1]]
    IN  Compress([i \in DOMAIN perm |-> perm[i] - 1], flag)

\* array[unique_rows]
TakeRows(array, index) == [k \in DOMAIN index |-> array[index[k] + 1]]

\* element values of the modelled int16 arrays and their row widths
ElemValues == {-1, 0, 256}
RowWidths == {1, 2}

Arrays2D == UNION {SeqsUpTo([1..w -> ElemValues], 0, MaxRows) : w \in RowWidths}

InitUnique ==
    /\ pc = "unique"
    /\ args \in [array : Arrays2D, return_index : BOOLEAN]
    /\ unique_rows = <<>>
    /\ mask = <<>>
    /\ values = <<>>
    /\ sample_weight = <<>>
    /\ weighted_percentiles = <<>>
    /\ ret = NoResult

\* lines 55-57
UniqueView ==
    /\ pc = "unique"
    /\ unique_rows' = NpUniqueIndex(VoidView(args.array))
    /\ pc' = "unique_return"
    /\ UNCHANGED <<args, mask, values, sample_weight, weighted_percentiles, ret>>

\* lines 58-59
UniqueReturnIndexed ==
    /\ pc = "unique_return"
    /\ args.return_index
    /\ ret' = Returned([rows  |-> TakeRows(args.array, unique_rows),
                        index |-> unique_rows])
    /\ pc' = "done"
    /\ UNCHANGED <<args, unique_rows, mask, values, sample_weight,
                   weighted_percentiles>>

\* lines 60-61
UniqueReturnRows ==
    /\ pc = "unique_return"
    /\ ~args.return_index
    /\ ret' = Returned([rows |-> TakeRows(args.array, unique_rows)])
    /\ pc' = "done"
    /\ UNCHANGED <<args, unique_rows, mask, values, sample_weight,
                   weighted_percentiles>>

NextUnique == UniqueView \/ UniqueReturnIndexed \/ UniqueReturnRows

SpecUnique == InitUnique /\ [][NextUnique]_vars

\* C1: every row array_unique returns is a row of the input, every distinct
\* row value of the input is returned exactly once, and the output has at
\* most as many rows as the input.
UniqueRowsContract ==
    pc = "done" =>
        LET in  == args.array
            out == ret.value.rows
        IN  /\ ret.status = "ok"
            /\ \A k \in DOMAIN out : out[k] \in Range(in)
            /\ \A r \in Range(in) :
                   Cardinality({k \in DOMAIN out : out[k] = r}) = 1
            /\ Len(out) <= Len(in)

\* a call returned fewer rows than it was given, from an input that holds
\* a repeated row and rows that differ only in a high byte
UniqueRowsWitness ==
    /\ pc = "done"
    /\ Len(ret.value.rows) = 2
    /\ Len(args.array) = 3
    /\ <<0, 256>> \in Range(args.array)
    /\ <<0, 0>> \in Range(args.array)

\* C9: with return_index=True the call returns (rows, index): index has one
\* entry per distinct row value, index[k] is the first position of the input
\* that holds that row value, and rows[k] is the input row at index[k].
UniqueFirstOccurrence ==
    (pc = "done" /\ args.return_index) =>
        LET in    == args.array
            rows  == ret.value.rows
            index == ret.value.index
        IN  /\ Len(index) = Cardinality(Range(in))
            /\ Len(rows) = Len(index)
            /\ \A k \in DOMAIN index :
                   /\ index[k] \in 0..(Len(in) - 1)
                   /\ rows[k] = in[index[k] + 1]
                   /\ \A q \in 0..(Len(in) - 1) :
                          in[q + 1] = in[index[k] + 1] => index[k] <= q
            /\ \A j, k \in DOMAIN index :
                   j # k => in[index[j] + 1] # in[index[k] + 1]

\* an indexed call on an input whose repeated row first occurs after
\* position 0
UniqueFirstOccurrenceWitness ==
    /\ pc = "done"
    /\ args.return_index
    /\ Len(args.array) = 3
    /\ args.array[2] = args.array[3]
    /\ args.array[1] # args.array[2]
    /\ 1 \in Range(ret.value.index)

---------------------------------------------------------------------------
(* where_list                                                              *)

\* an n-d array is its shape and its elements in row-major order
NdArray(shape, flat) == [shape |-> shape, flat |-> flat]

\* np.ones_like(values)
OnesLike(vs) == [i \in DOMAIN vs |-> 1]

\* the items of the finite integer set S in ascending order (np.unique)
RECURSIVE SortedSeq(_)
SortedSeq(S) ==
    IF S = {} THEN <<>>
    ELSE LET m == CHOOSE x \in S : \A y \in S : x <= y
         IN  <<m>> \o SortedSeq(S \ {m})

\* sum of the weights of the positions of labels that hold label l
\* (one bin of np.bincount(labels, weights=input))
RECURSIVE BinSum(_, _, _)
BinSum(input, labels, l) ==
    IF labels = <<>> THEN 0
    ELSE (IF Head(labels) = l THEN Head(input) ELSE 0)
         + BinSum(Tail(input), Tail(labels), l)

\* np.searchsorted(a, v): how many items of the sorted a are below v
SearchSorted(a, v) == Cardinality({i \in DOMAIN a : a[i] < v})

SeqMin(s) == CHOOSE x \in Range(s) : \A y \in Range(s) : x <= y
SeqMax(s) == CHOOSE x \in Range(s) : \A y \in Range(s) : y <= x

\* scipy.ndimage.sum(input, labels, index) for an array-valued index: the
\* labels are remapped through np.unique when they are not small
\* non-negative integers (an empty list is a float array), and binned
\* directly otherwise; an index without a bin sums to 0.  With no label at
\* all the remapped table is empty and looking an index up in it raises.
NdSum(input, labels, index) ==
    IF labels = <<>> \/ SeqMin(labels) < 0 \/ SeqMax(labels) > Len(labels)
    THEN LET unique_labels == SortedSeq(Range(labels))
             size  == Len(unique_labels)
             at(v) == LET i == SearchSorted(unique_labels, v)
                      IN  IF i >= size THEN 0 ELSE i
         IN  IF size = 0 /\ index # <<>>
             THEN Raised("IndexError")
             ELSE Returned([k \in DOMAIN index |->
                     IF unique_labels[at(index[k]) + 1] = index[k]
                     THEN BinSum(input, labels, unique_labels[at(index[k]) + 1])
                     ELSE 0])
    ELSE LET size == SeqMax(labels) + 1
         IN  Returned([k \in DOMAIN index |->
                 IF index[k] >= 0 /\ index[k] < size
                 THEN BinSum(input, labels, index[k])
                 ELSE 0])

\* the index along axis ax (0-based) of the element at row-major position q
RECURSIVE Stride(_, _)
Stride(shape, ax) ==
    IF ax + 1 >= Len(shape) THEN 1
    ELSE shape[ax + 2] * Stride(shape, ax + 1)

Unravel(shape, q, ax) == (q \div Stride(shape, ax)) % shape[ax + 1]

\* np.where(mask > 0): one coordinate array per axis, hits in row-major order
NpWherePositive(shape, m) ==
    LET hits == Compress([k \in DOMAIN m |-> k - 1],
                         [k \in DOMAIN m |-> m[k] > 0])
    IN  [ax \in 1..Len(shape) |->
            [h \in DOMAIN hits |-> Unravel(shape, hits[h], ax - 1)]]

ArrayValues == 0..2
QueryValues == {0, 1, 2, 5}

Shapes ==
    {<<n>> : n \in 0..MaxSize}
    \cup {<<r, c>> : r \in 1..MaxSize, c \in 1..MaxSize}

ShapeSize(shape) == IF Len(shape) = 1 THEN shape[1] ELSE shape[1] * shape[2]

NdArrays ==
    UNION {{NdArray(shape, flat) : flat \in [1..ShapeSize(shape) -> ArrayValues]} :
            shape \in {sh \in Shapes : ShapeSize(sh) <= MaxSize}}

InitWhere ==
    /\ pc = "where"
    /\ args \in [array : NdArrays, values : SeqsUpTo(QueryValues, 0, MaxQuery)]
    /\ unique_rows = <<>>
    /\ mask = <<>>
    /\ values = <<>>
    /\ sample_weight = <<>>
    /\ weighted_percentiles = <<>>
    /\ ret = NoResult

\* line 92
WhereMask ==
    /\ pc = "where"
    /\ LET sums == NdSum(OnesLike(args.values), args.values, args.array.flat)
       IN  IF sums.status = "ok"
           THEN /\ mask' = sums.value
                /\ pc' = "where_return"
                /\ ret' = ret
           ELSE /\ mask' = mask
                /\ pc' = "done"
                /\ ret' = sums
    /\ UNCHANGED <<args, unique_rows, values, sample_weight, weighted_percentiles>>

\* line 93
WhereReturn ==
    /\ pc = "where_return"
    /\ ret' = Returned(NpWherePositive(args.array.shape, mask))
    /\ pc' = "done"
    /\ UNCHANGED <<args, unique_rows, mask, values, sample_weight,
                   weighted_percentiles>>

NextWhere == WhereMask \/ WhereReturn

SpecWhere == InitWhere /\ [][NextWhere]_vars

\* the row-major positions (0-based) the returned coordinates point to
ReturnedPositions(shape, coords) ==
    [h \in DOMAIN coords[1] |->
        IF Len(shape) = 1 THEN coords[1][h]
        ELSE coords[1][h] * shape[2] + coords[2][h]]

\* the returned coordinates are exactly the positions of A that hold a
\* value of V, each position once
WhereExact ==
    LET A   == args.array
        V   == Range(args.values)
        pos == ReturnedPositions(A.shape, ret.value)
    IN  /\ ret.status = "ok"
        /\ Len(ret.value) = Len(A.shape)
        /\ \A ax \in DOMAIN ret.value : Len(ret.value[ax]) = Len(pos)
        /\ \A h \in DOMAIN pos :
              /\ pos[h] \in 0..(Len(A.flat) - 1)
              /\ A.flat[pos[h] + 1] \in V
              /\ \A ax \in DOMAIN ret.value :
                    ret.value[ax][h] \in 0..(A.shape[ax] - 1)
        /\ \A q \in 0..(Len(A.flat) - 1) :
              A.flat[q + 1] \in V =>
                  Cardinality({h \in DOMAIN pos : pos[h] = q}) = 1

\* C2: for every array A of non-negative integers and every query list V,
\* where_list(A, V) returns exactly the positions of A whose value is in V,
\* each once, also when V repeats a value.
WhereListContract == pc = "done" => WhereExact

\* what the code does keep of C2: the same, for a query list that is not
\* empty
WhereListNonEmptyQuery == (pc = "done" /\ args.values # <<>>) => WhereExact

---------------------------------------------------------------------------
(* array_difference                                                        *)

\* an array argument: ndim = 1 holds scalars, ndim = 2 holds rows
Items(ndim, items) == [ndim |-> ndim, items |-> items]

\* set(a): iterating an array yields its items along the first axis; the
\* scalars of a 1-d array hash, the rows of a 2-d array are arrays and do
\* not (line 124)
PySet(a) ==
    IF a.ndim = 1 \/ a.items = <<>>
    THEN Returned(Range(a.items))
    ELSE Raised("TypeError")

\* the sequences that list every item of the finite set S once, in any
\* order: list(S), the iteration order of a set being unspecified
Listings(S) ==
    {f \in [1..Cardinality(S) -> S] : \A i, j \in DOMAIN f : i # j => f[i] # f[j]}

DiffScalars == 0..2
DiffRows == [1..2 -> 0..1]

DiffArrays ==
    {Items(1, it) : it \in SeqsUpTo(DiffScalars, 0, MaxItems)}
    \cup {Items(2, it) : it \in SeqsUpTo(DiffRows, 1, MaxItems)}

InitDifference ==
    /\ pc = "difference"
    /\ args \in [array : DiffArrays, subarray : DiffArrays]
    /\ unique_rows = <<>>
    /\ mask = <<>>
    /\ values = <<>>
    /\ sample_weight = <<>>
    /\ weighted_percentiles = <<>>
    /\ ret = NoResult

\* line 127
DifferenceReturn ==
    /\ pc = "difference"
    /\ LET a == PySet(args.array)
           b == PySet(args.subarray)
       IN  IF a.status # "ok" THEN ret' = a
           ELSE IF b.status # "ok" THEN ret' = b
           ELSE \E order \in Listings(a.value \ b.value) : ret' = Returned(order)
    /\ pc' = "done"
    /\ UNCHANGED <<args, unique_rows, mask, values, sample_weight,
                   weighted_percentiles>>

NextDifference == DifferenceReturn

SpecDifference == InitDifference /\ [][NextDifference]_vars

\* C3: array_difference(array, subarray) returns exactly the elements of
\* array that do not occur in subarray, each once; nothing when the two
\* hold the same content.
DifferenceContract ==
    pc = "done" =>
        LET A == Range(args.array.items)
            B == Range(args.subarray.items)
        IN  /\ ret.status = "ok"
            /\ Range(ret.value) = A \ B
            /\ Range(ret.value) \cap B = {}
            /\ Range(ret.value) \subseteq A
            /\ Len(ret.value) = Cardinality(Range(ret.value))
            /\ (A = B => ret.value = <<>>)

\* what the code does keep of C3: the same, for 1-d arguments
DifferenceOfScalars ==
    (pc = "done" /\ args.array.ndim = 1 /\ args.subarray.ndim = 1) =>
        /\ ret.status = "ok"
        /\ Range(ret.value) = Range(args.array.items) \ Range(args.subarray.items)
        /\ Len(ret.value) = Cardinality(Range(ret.value))

\* C4: given a 2-d array, whose elements are rows, array_difference does
\* not fail and returns the rows of array that do not occur in subarray.
DifferenceOfRows ==
    (pc = "done" /\ args.array.ndim = 2) =>
        /\ ret.status # "TypeError"
        /\ ret.status = "ok"
        /\ \A r \in Range(args.array.items) :
              r \notin Range(args.subarray.items) => r \in Range(ret.value)

---------------------------------------------------------------------------
(* weighted_percentile: arithmetic                                         *)

\* a rational n/d, d >= 0; d = 0 is +inf, -inf or NaN by the sign of n
Rat(n, d) == [n |-> n, d |-> d]

FromInt(i) == Rat(i, 1)

NaN == Rat(0, 0)

IsNaN(x) == x.d = 0 /\ x.n = 0

\* x / t for an integer x and an integer t, as the floating division does
\* it: a zero t gives an infinity or NaN
Quotient(x, t) ==
    IF t > 0 THEN Rat(x, t)
    ELSE IF t < 0 THEN Rat(-x, -t)
    ELSE Rat(x, 0)

\* IEEE comparisons: every comparison with NaN is false
Lt(x, y) ==
    /\ ~IsNaN(x)
    /\ ~IsNaN(y)
    /\ IF x.d > 0 /\ y.d > 0 THEN x.n * y.d < y.n * x.d
       ELSE IF x.d = 0 /\ y.d = 0 THEN x.n < 0 /\ y.n > 0
       ELSE IF x.d = 0 THEN x.n < 0
       ELSE y.n > 0

Eq(x, y) ==
    /\ ~IsNaN(x)
    /\ ~IsNaN(y)
    /\ IF x.d > 0 /\ y.d > 0 THEN x.n * y.d = y.n * x.d
       ELSE IF x.d = 0 /\ y.d = 0 THEN (x.n < 0) = (y.n < 0)
       ELSE FALSE

Le(x, y) == Lt(x, y) \/ Eq(x, y)

Gt(x, y) == Lt(y, x)

Ge(x, y) == Le(y, x)

---------------------------------------------------------------------------
(* weighted_percentile: the numpy primitives                               *)

\* the orders that list the positions in `left` by ascending value, equal
\* values in any order
RECURSIVE SortOrders(_, _)
SortOrders(vs, left) ==
    IF left = {} THEN {<<>>}
    ELSE LET least == {i \in left : \A j \in left : vs[i] <= vs[j]}
         IN  UNION {{<<i>> \o rest : rest \in SortOrders(vs, left \ {i})} :
                     i \in least}

\* np.argsort(values): every permutation that sorts values ascending; the
\* default sort is not stable, equal values may come in any order
\* (positions are 1-based here)
Argsorts(vs) == SortOrders(vs, DOMAIN vs)

\* np.cumsum(w)[i]
RECURSIVE Cumsum(_, _)
Cumsum(w, i) == IF i = 0 THEN 0 ELSE w[i] + Cumsum(w, i - 1)

\* np.sum(w)
Sum(w) == Cumsum(w, Len(w))

\* faulty variant of WeightedRanks: the rank of an item is taken at the end of its
\* weight, 100 * cumsum / sum, not at its middle
WeightedRanksAtEnd(w) ==
    [i \in DOMAIN w |-> Quotient(100 * 2 * Cumsum(w, i), 2 * Sum(w))]

\* lines 158-160: 100. * (cumsum(w) - 0.5 * w) / sum(w), both sides of the
\* division doubled to stay in the integers
WeightedRanks(w) ==
    [i \in DOMAIN w |->
        Quotient(100 * (2 * Cumsum(w, i) - w[i]), 2 * Sum(w))]

\* numpy's linear_search(key, arr, len, i0); arr is 0-based in C
RECURSIVE LinearSearch(_, _, _)
LinearSearch(key, arr, i) ==
    IF i < Len(arr) /\ Ge(key, arr[i + 1])
    THEN LinearSearch(key, arr, i + 1)
    ELSE i - 1

\* the bisection that ends numpy's binary_search_with_guess
RECURSIVE Bisect(_, _, _, _)
Bisect(key, arr, imin, imax) ==
    IF imin < imax
    THEN LET imid == imin + ((imax - imin) \div 2)
         IN  IF Ge(key, arr[imid + 1])
             THEN Bisect(key, arr, imid + 1, imax)
             ELSE Bisect(key, arr, imin, imid)
    ELSE imin - 1

\* numpy's binary_search_with_guess(key, arr, len, guess): the index j with
\* arr[j] <= key < arr[j + 1], -1 below arr[0], len above arr[len - 1]
BinarySearchWithGuess(key, arr, guess0) ==
    LET len   == Len(arr)
        a(i)  == arr[i + 1]
        g1    == IF guess0 > len - 3 THEN len - 3 ELSE guess0
        guess == IF g1 < 1 THEN 1 ELSE g1
    IN  IF Gt(key, a(len - 1)) THEN len
        ELSE IF Lt(key, a(0)) THEN -1
        ELSE IF len <= 4 THEN LinearSearch(key, arr, 1)
        ELSE IF Lt(key, a(guess))
             THEN IF Lt(key, a(guess - 1))
                  THEN Bisect(key, arr,
                              IF guess > 8 /\ Ge(key, a(guess - 8))
                              THEN guess - 8 ELSE 0,
                              guess - 1)
                  ELSE guess - 1
        ELSE IF Lt(key, a(guess + 1)) THEN guess
        ELSE IF Lt(key, a(guess + 2)) THEN guess + 1
        ELSE Bisect(key, arr, guess + 2,
                    IF guess < len - 8 - 1 /\ Lt(key, a(guess + 8))
                    THEN guess + 8 ELSE len)

\* faulty variant of InterpAt: no clamping, a rank outside [xp[0], xp[-1]] is
\* extrapolated along the nearest segment
InterpAtExtrapolating(x, xp, fp, j) ==
    LET len == Len(xp)
        k   == IF j < 0 THEN 0 ELSE IF j >= len - 1 THEN len - 2 ELSE j
    IN  IF len = 1 THEN FromInt(fp[1])
        ELSE IF xp[k + 1].d = 0 THEN NaN
        ELSE Rat(fp[k + 1] * (xp[k + 2].n - xp[k + 1].n)
                   + (fp[k + 2] - fp[k + 1]) * (x * xp[k + 1].d - xp[k + 1].n),
                 xp[k + 2].n - xp[k + 1].n)

\* one item of np.interp(x, xp, fp), given the interval j the search found:
\* clamped at both ends, exact at a sample point, and linear in between.
\* The ranks share one denominator; with a zero total weight they are not
\* finite, the slope term is NaN and numpy falls back on fp[j] when the
\* two neighbours are equal.
InterpAt(x, xp, fp, j) ==
    LET len == Len(xp)
    IN  IF len = 1 THEN FromInt(fp[1])
        ELSE IF j = -1 THEN FromInt(fp[1])
        ELSE IF j = len THEN FromInt(fp[len])
        ELSE IF j = len - 1 THEN FromInt(fp[j + 1])
        ELSE IF Eq(xp[j + 1], FromInt(x)) THEN FromInt(fp[j + 1])
        ELSE IF xp[j + 1].d = 0
             THEN IF fp[j + 1] = fp[j + 2] THEN FromInt(fp[j + 1]) ELSE NaN
        ELSE Rat(fp[j + 1] * (xp[j + 2].n - xp[j + 1].n)
                   + (fp[j + 2] - fp[j + 1]) * (x * xp[j + 1].d - xp[j + 1].n),
                 xp[j + 2].n - xp[j + 1].n)

\* the interval found for x[i], the one of x[i - 1] being the guess
RECURSIVE InterpIndex(_, _, _)
InterpIndex(x, xp, i) ==
    IF Len(xp) = 1 THEN 0
    ELSE BinarySearchWithGuess(FromInt(x[i]), xp,
                               IF i = 1 THEN 0 ELSE InterpIndex(x, xp, i - 1))

\* line 161: np.interp(x, xp, fp)
NpInterp(x, xp, fp) ==
    IF Len(xp) = 0 THEN Raised("ValueError")
    ELSE IF Len(xp) # Len(fp) THEN Raised("ValueError")
    ELSE Returned([i \in DOMAIN x |-> InterpAt(x[i], xp, fp, InterpIndex(x, xp, i))])

---------------------------------------------------------------------------
(* weighted_percentile: the function body                                  *)

\* the optional argument sample_weight: None, or a sequence
NoWeights == [none |-> TRUE, w |-> <<>>]

Weights(w) == [none |-> FALSE, w |-> w]

IsSorted(vs) == \A i \in DOMAIN vs : i < Len(vs) => vs[i] <= vs[i + 1]

\* faulty variant of PercentilesInRange: the upper end of the range is not checked
PercentilesNotNegative(ps) == \A i \in DOMAIN ps : ps[i] >= 0

\* lines 150-151: np.all(percentiles >= 0) and np.all(percentiles <= 100)
PercentilesInRange(ps) ==
    /\ \A i \in DOMAIN ps : ps[i] >= 0
    /\ \A i \in DOMAIN ps : ps[i] <= 100

\* faulty variant of TakeSorted: the permutation is not applied
TakeUnsorted(a, sorter) == [i \in DOMAIN sorter |-> a[i]]

\* a[sorter] for a permutation sorter of the positions of values
TakeSorted(a, sorter) == [i \in DOMAIN sorter |-> a[sorter[i]]]

\* lines 145-151
PercentileAssert ==
    /\ pc = "percentile"
    /\ values' = args.values
    /\ sample_weight' = IF args.sample_weight.none
                        THEN OnesLike(args.values)
                        ELSE args.sample_weight.w
    /\ IF PercentilesInRange(args.percentiles)
       THEN pc' = "percentile_sort" /\ ret' = ret
       ELSE pc' = "done" /\ ret' = Raised("AssertionError")
    /\ UNCHANGED <<args, unique_rows, mask, weighted_percentiles>>

\* lines 153-156, values_sorted false
PercentileSort ==
    /\ pc = "percentile_sort"
    /\ ~args.values_sorted
    /\ \E sorter \in Argsorts(values) :
          /\ values' = TakeSorted(values, sorter)
          /\ IF \A i \in DOMAIN sorter : sorter[i] \in DOMAIN sample_weight
             THEN /\ sample_weight' = TakeSorted(sample_weight, sorter)
                  /\ pc' = "percentile_rank"
                  /\ ret' = ret
             ELSE /\ sample_weight' = sample_weight
                  /\ pc' = "done"
                  /\ ret' = Raised("IndexError")
    /\ UNCHANGED <<args, unique_rows, mask, weighted_percentiles>>

\* line 153, values_sorted true
PercentileSorted ==
    /\ pc = "percentile_sort"
    /\ args.values_sorted
    /\ pc' = "percentile_rank"
    /\ UNCHANGED <<args, unique_rows, mask, values, sample_weight,
                   weighted_percentiles, ret>>

\* lines 158-160
PercentileRank ==
    /\ pc = "percentile_rank"
    /\ weighted_percentiles' = WeightedRanks(sample_weight)
    /\ pc' = "percentile_interp"
    /\ UNCHANGED <<args, unique_rows, mask, values, sample_weight, ret>>

\* line 161
PercentileInterp ==
    /\ pc = "percentile_interp"
    /\ ret' = NpInterp(args.percentiles, weighted_percentiles, values)
    /\ pc' = "done"
    /\ UNCHANGED <<args, unique_rows, mask, values, sample_weight,
                   weighted_percentiles>>

NextPercentile ==
    \/ PercentileAssert
    \/ PercentileSort
    \/ PercentileSorted
    \/ PercentileRank
    \/ PercentileInterp

InitPercentile(Values, Percentiles, SampleWeights) ==
    /\ pc = "percentile"
    /\ args \in {a \in [values : Values, percentiles : Percentiles,
                        sample_weight : SampleWeights,
                        values_sorted : BOOLEAN] :
                    a.values_sorted => IsSorted(a.values)}
    /\ unique_rows = <<>>
    /\ mask = <<>>
    /\ values = <<>>
    /\ sample_weight = <<>>
    /\ weighted_percentiles = <<>>
    /\ ret = NoResult

\* calls with any percentiles and any length of sample_weight
InitPercentileArgs ==
    InitPercentile(SeqsUpTo({1, 3}, 1, MaxLen),
                   SeqsUpTo({-5, 50, 100, 105}, 1, 2),
                   {NoWeights} \cup
                   {Weights(w) : w \in SeqsUpTo({1, 2}, 0, MaxLen + 1)})

SpecPercentileArgs == InitPercentileArgs /\ [][NextPercentile]_vars

WeightLengthChecked ==
    (/\ pc = "done"
     /\ ~args.sample_weight.none
     /\ Len(args.sample_weight.w) # Len(args.values))
    => ret.status # "ok"

---------------------------------------------------------------------------
(* weighted_percentile with uniform weights                                *)

\* calls with sample_weight omitted or all weights equal, one percentile
InitPercentileUniform ==
    /\ InitPercentile(SeqsUpTo({0, 1, 3}, 1, MaxUniformLen),
                      SeqsUpTo({0, 10, 20, 25, 50, 75, 90, 100}, 1, 1),
                      {NoWeights} \cup
                      {Weights([i \in 1..n |-> k]) :
                          n \in 1..MaxUniformLen, k \in {1, 2}})
    /\ args.sample_weight.none \/ Len(args.sample_weight.w) = Len(args.values)

SpecPercentileUniform == InitPercentileUniform /\ [][NextPercentile]_vars

\* how often x occurs in vs
Count(vs, x) == Cardinality({i \in DOMAIN vs : vs[i] = x})

\* vs in ascending order
SortedCopy(vs) ==
    CHOOSE s \in [DOMAIN vs -> Range(vs)] :
        IsSorted(s) /\ \A x \in Range(vs) : Count(s, x) = Count(vs, x)

\* the standard unweighted percentile of the sorted vs: linear
\* interpolation at rank p/100 * (n - 1)
StandardPercentile(vs, p) ==
    LET n   == Len(vs)
        lo  == (p * (n - 1)) \div 100
        rem == (p * (n - 1)) % 100
    IN  IF lo >= n - 1 THEN FromInt(vs[n])
        ELSE Rat(100 * vs[lo + 1] + (vs[lo + 2] - vs[lo + 1]) * rem, 100)

\* the midpoint percentile of the sorted vs: linear interpolation at rank
\* p/100 * n - 1/2, clamped to [0, n - 1]
MidpointPercentile(vs, p) ==
    LET n   == Len(vs)
        h   == 2 * p * n - 100
        lo  == h \div 200
        rem == h % 200
    IN  IF h <= 0 THEN FromInt(vs[1])
        ELSE IF h >= 200 * (n - 1) THEN FromInt(vs[n])
        ELSE Rat(200 * vs[lo + 1] + (vs[lo + 2] - vs[lo + 1]) * rem, 200)

\* C7: with uniform weights weighted_percentile returns, for every values
\* and every p in [0, 100], the standard unweighted percentile (linear
\* interpolation at rank p/100 * (n - 1)).
UniformMatchesStandard ==
    pc = "done" =>
        /\ ret.status = "ok"
        /\ \A i \in DOMAIN args.percentiles :
              Eq(ret.value[i],
                 StandardPercentile(SortedCopy(args.values), args.percentiles[i]))

\* C7 as amended: with uniform weights the result is the linear
\* interpolation at rank p/100 * n - 1/2 clamped to [0, n - 1]; it is the
\* standard percentile at p = 0, p = 50 and p = 100.
UniformMatchesMidpoint ==
    pc = "done" =>
        /\ ret.status = "ok"
        /\ Len(ret.value) = Len(args.percentiles)
        /\ \A i \in DOMAIN args.percentiles :
              LET p  == args.percentiles[i]
                  vs == SortedCopy(args.values)
              IN  /\ Eq(ret.value[i], MidpointPercentile(vs, p))
                  /\ p \in {0, 50, 100} =>
                        Eq(ret.value[i], StandardPercentile(vs, p))

\* the 25th percentile of the unsorted 3, 0, 1 under equal weights 2 is
\* 1/4, where the standard percentile is 1/2
UniformWitness ==
    /\ pc = "done"
    /\ args.values = <<3, 0, 1>>
    /\ args.sample_weight = Weights(<<2, 2, 2>>)
    /\ args.percentiles = <<25>>
    /\ Eq(ret.value[1], Rat(1, 4))

---------------------------------------------------------------------------
(* weighted_percentile with arbitrary weights                              *)

\* calls with a weight per value, zero and negative weights included, and
\* two percentiles in either order
InitPercentileWeighted ==
    /\ InitPercentile(SeqsUpTo({1, 3}, 1, MaxLen),
                      SeqsUpTo({0, 30, 50, 100}, 2, 2),
                      {Weights(w) : w \in SeqsUpTo({-1, 0, 1, 2}, 1, MaxLen)})
    /\ Len(args.sample_weight.w) = Len(args.values)

SpecPercentileWeighted == InitPercentileWeighted /\ [][NextPercentile]_vars

\* the results are ordered as the requested percentiles are
MonotoneResults ==
    \A i, j \in DOMAIN args.percentiles :
        args.percentiles[i] < args.percentiles[j] => Le(ret.value[i], ret.value[j])

\* C8: weighted_percentile is monotone in the requested percentile, for
\* every values and every sample_weight of the same length, zero and
\* negative weights included.
PercentileMonotone == (pc = "done" /\ ret.status = "ok") => MonotoneResults

\* C8 as amended: weighted_percentile is monotone in the requested
\* percentile for every values and every sample_weight of the same length
\* whose weights are all >= 0 and not all zero.
PercentileMonotonePositiveTotal ==
    (/\ pc = "done"
     /\ \A i \in DOMAIN args.sample_weight.w : args.sample_weight.w[i] >= 0
     /\ Sum(args.sample_weight.w) > 0)
    => (ret.status = "ok" /\ MonotoneResults)

\* unsorted values, a zero weight among positive ones, and two
\* percentiles whose results differ
PercentileMonotoneWitness ==
    /\ pc = "done"
    /\ args.values = <<3, 1, 3>>
    /\ args.sample_weight = Weights(<<2, 1, 0>>)
    /\ args.percentiles = <<30, 100>>
    /\ Lt(ret.value[1], ret.value[2])
    /\ Lt(FromInt(1), ret.value[1])

\* C10: with strictly positive weights, a requested p at or below the
\* smallest weighted rank yields the smallest value and a p at or above
\* the largest weighted rank yields the largest value; a single-element
\* input yields its element for every p.
PercentileClamped ==
    (/\ pc = "done"
     /\ \A i \in DOMAIN args.sample_weight.w : args.sample_weight.w[i] > 0)
    => /\ ret.status = "ok"
       /\ \A i \in DOMAIN args.percentiles :
             LET p  == FromInt(args.percentiles[i])
                 n  == Len(args.values)
                 vs == SortedCopy(args.values)
             IN  /\ Le(p, weighted_percentiles[1]) => Eq(ret.value[i], FromInt(vs[1]))
                 /\ Ge(p, weighted_percentiles[n]) => Eq(ret.value[i], FromInt(vs[n]))
                 /\ n = 1 => Eq(ret.value[i], FromInt(args.values[1]))

\* percentiles 0 and 100 of the unsorted 3, 1 under weights 1, 2 lie
\* outside the ranks and give 1 and 3
PercentileClampedWitness ==
    /\ pc = "done"
    /\ args.values = <<3, 1>>
    /\ args.sample_weight = Weights(<<1, 2>>)
    /\ args.percentiles = <<0, 100>>
    /\ ret.value = <<FromInt(1), FromInt(3)>>
    /\ Lt(FromInt(0), weighted_percentiles[1])
    /\ Lt(weighted_percentiles[2], FromInt(100))

=============================================================================
